---- MODULE Spec2Model ----
(***************************************************************************)
(* Conversation orchestration engine of the route planner                  *)
(* (backend/app/agent): the LangGraph workflow of workflow.py, its routing *)
(* predicates (routing.py), its nodes (nodes/*.py) and the optimisation    *)
(* tools (tools/route.py), as a state machine over one session.            *)
(*                                                                         *)
(* Spec      one session, from the empty state, driven by user messages.   *)
(* SpecLive  Spec with the engine's steps weakly fair.                     *)
(* SpecPred  the routing predicates and the nodes no session reaches,      *)
(*           applied to AgentState values drawn from bounded sets.         *)
(* SpecReg   the session registry (api/services/session_manager.py) and    *)
(*           the chat endpoint, called from concurrent request threads.    *)
(* SpecSeg   calculate_segments (utils/utils.py) applied to polylines and  *)
(*           daily distances drawn from bounded sets.                      *)
(* SpecTool  the tool node of the optimiser (tools/route.py) run on states *)
(*           and tool requests drawn from bounded sets.                    *)
(***************************************************************************)
EXTENDS Integers, Sequences, FiniteSets, TLC

VARIABLES
    messages,                   \* AgentState.messages
    requirements,               \* AgentState.requirements
    route,                      \* AgentState.route
    segments,                   \* AgentState.segments
    user_confirmed,             \* AgentState.user_confirmed
    awaiting_user_response,     \* AgentState.awaiting_user_response
    critical_optimization_done, \* AgentState.critical_optimization_done
    pc,             \* "idle" between turns, else the node the graph runs next
    path,           \* nodes that completed in the current (or last) turn
    entry,          \* node chosen by the entry point of the current turn
    outcome,        \* "none" | "running" | "suspended" | "failed"
    at,             \* node at which the last turn suspended or failed
    prev,           \* <<outcome, at>> of the turn before the current one
    turns,          \* user messages received so far
    executed,       \* names of the tools executed so far, in order
    applied,        \* SpecPred: the predicate that has been applied
    sessions,       \* SessionManager._sessions
    lock,           \* SessionManager._lock: 0 when free, else its holder
    thr,            \* the request threads: the call each is in, and where
    created,        \* session ids generated so far
    begun,          \* update_session calls begun so far
    increments,     \* per session: increments of message_count completed
    deleted,        \* sessions delete_session has removed
    seg_in,         \* SpecSeg: the arguments of calculate_segments
    seg_out,        \* SpecSeg: the list that was returned
    seg_ext         \* SpecSeg: what reverse_geocode and get_accommodation did

agentvars == <<messages, requirements, route, segments, user_confirmed,
               awaiting_user_response, critical_optimization_done,
               pc, path, entry, outcome, at, prev, turns, executed, applied>>

regvars == <<sessions, lock, thr, created, begun, increments, deleted>>

segvars == <<seg_in, seg_out, seg_ext>>

vars == <<agentvars, regvars, segvars>>

state == <<messages, requirements, route, segments, user_confirmed,
           awaiting_user_response, critical_optimization_done>>

----------------------------------------------------------------------------
(* Bounds of the model *)

MaxHistory == 6        \* a user message arrives while the log is shorter
RecursionLimit == 9    \* supersteps per turn (langgraph's recursion_limit)
MaxSegments == 2       \* days a route is cut into
MaxThreads == 2        \* request threads calling the session registry
MaxSessions == 1       \* session ids create_session generates
MaxUpdates == 2        \* update_session calls begun
MaxEdges == 3          \* edges of a polyline
MaxEdgeKm == 2         \* length of an edge
MaxDailyKm == 3        \* daily distance
MaxIntermediates == 2  \* intermediate waypoints of drawn requirements

END == "__end__"

----------------------------------------------------------------------------
(* Values *)

\* Optional[...] fields: absent values are records with present = FALSE
NoRequirements ==
    [present |-> FALSE, daily_distance_km |-> 0, intermediates |-> <<>>]
NoRoute == [present |-> FALSE, via |-> <<>>]
NoSegments == [present |-> FALSE, list |-> <<>>]

RouteRequirements(d, inter) ==
    [present |-> TRUE, daily_distance_km |-> d, intermediates |-> inter]
Route(inter) == [present |-> TRUE, via |-> inter]
Segment(d, n) == [day |-> d, accommodation_options |-> n]

\* python truthiness of the optional fields: None and [] are falsy
Truthy(x) == x.present
TruthyList(s) == s.present /\ s.list # <<>>

\* messages: type, tool_calls (ai), phrase (ai: the content holds one of the
\* overview phrases the code searches for), tool_call_id and status (tool)
ToolCall(name, args, id) == [name |-> name, args |-> args, id |-> id]
HumanMessage ==
    [type |-> "human", tool_calls |-> <<>>, phrase |-> FALSE,
     tool_call_id |-> 0, status |-> "none"]
AIMessage(calls, phrase) ==
    [type |-> "ai", tool_calls |-> calls, phrase |-> phrase,
     tool_call_id |-> 0, status |-> "none"]
ToolMessage(id, status) ==
    [type |-> "tool", tool_calls |-> <<>>, phrase |-> FALSE,
     tool_call_id |-> id, status |-> status]

Last(s) == s[Len(s)]

\* mutant: messages is an ordinary field, an update replaces the log
operator_add_last_value(left, right) == right

\* the reducer of AgentState.messages: an update is appended to the log
operator_add(left, right) == left \o right
ToolNames(m) == {m.tool_calls[i].name : i \in DOMAIN m.tool_calls}

\* the tool calls of a model response get ids unique in the log
WithIds(shape, n) ==
    [i \in DOMAIN shape |-> ToolCall(shape[i][1], shape[i][2], 10 * n + i)]

----------------------------------------------------------------------------
(* Routing predicates *)

\* mutant: the fallback to the reviewer is tested before the waiting flag
determine_entry_point_fallback_first(uc, aw, rt, rq) ==
    IF uc THEN "writer"
    ELSE IF Truthy(rt) /\ Truthy(rq) THEN "reviewer"
    ELSE IF aw /\ Truthy(rt) /\ ~uc THEN "optimiser"
    ELSE "planner"

determine_entry_point(uc, aw, rt, rq) ==
    IF uc THEN "writer"
    ELSE IF aw /\ Truthy(rt) /\ ~uc THEN "optimiser"
    ELSE IF Truthy(rt) /\ Truthy(rq) THEN "reviewer"
    ELSE "planner"

\* mutant: any RouteRequirements request, not only the first, goes to parser
route_planner_any_call(msgs, rt, sg, uc) ==
    IF /\ Truthy(rt) /\ TruthyList(sg) /\ ~uc
       /\ Len(msgs) >= 2
       /\ Last(msgs).type = "human"
       /\ msgs[Len(msgs) - 1].type = "ai"
       /\ msgs[Len(msgs) - 1].phrase
    THEN "optimiser"
    ELSE IF Last(msgs).tool_calls = <<>> THEN END
    ELSE IF "RouteRequirements" \in ToolNames(Last(msgs)) THEN "parser"
    ELSE "planner_tools"

\* mutant: a request for a tool other than RouteRequirements ends the turn
route_planner_drops_tools(msgs, rt, sg, uc) ==
    IF /\ Truthy(rt) /\ TruthyList(sg) /\ ~uc
       /\ Len(msgs) >= 2
       /\ Last(msgs).type = "human"
       /\ msgs[Len(msgs) - 1].type = "ai"
       /\ msgs[Len(msgs) - 1].phrase
    THEN "optimiser"
    ELSE IF Last(msgs).tool_calls = <<>> THEN END
    ELSE IF Last(msgs).tool_calls[1].name = "RouteRequirements" THEN "parser"
    ELSE END

\* mutant: the feedback test is made on the log before the last message
route_planner_feedback_before_last(msgs, rt, sg, uc) ==
    IF /\ Truthy(rt) /\ TruthyList(sg) /\ ~uc
       /\ Len(msgs) >= 3
       /\ msgs[Len(msgs) - 1].type = "human"
       /\ msgs[Len(msgs) - 2].type = "ai"
       /\ msgs[Len(msgs) - 2].phrase
    THEN "optimiser"
    ELSE IF Last(msgs).tool_calls = <<>> THEN END
    ELSE IF Last(msgs).tool_calls[1].name = "RouteRequirements" THEN "parser"
    ELSE "planner_tools"

route_planner(msgs, rt, sg, uc) ==
    IF /\ Truthy(rt) /\ TruthyList(sg) /\ ~uc
       /\ Len(msgs) >= 2
       /\ Last(msgs).type = "human"
       /\ msgs[Len(msgs) - 1].type = "ai"
       /\ msgs[Len(msgs) - 1].phrase
    THEN "optimiser"
    ELSE IF Last(msgs).tool_calls = <<>> THEN END
    ELSE IF Last(msgs).tool_calls[1].name = "RouteRequirements" THEN "parser"
    ELSE "planner_tools"

\* mutant: only the first tool call is compared with confirm_route
route_optimiser_first_call(msgs) ==
    IF Last(msgs).tool_calls # <<>>
    THEN IF Last(msgs).tool_calls[1].name = "confirm_route"
         THEN "reviewer"
         ELSE "optimiser_tools"
    ELSE "reviewer"

route_optimiser(msgs) ==
    IF Last(msgs).tool_calls # <<>>
    THEN IF "confirm_route" \in ToolNames(Last(msgs))
         THEN "reviewer"
         ELSE "optimiser_tools"
    ELSE "reviewer"

route_reviewer(uc) ==
    IF uc THEN "writer" ELSE END

\* mutant: the flag is ignored, the optimiser always runs
route_after_accommodation_unguarded(cod) == "optimiser"

route_after_accommodation(cod) ==
    IF cod THEN "reviewer" ELSE "optimiser"

\* mutant: route calculation is wired straight to the lodging search
add_edge_skips_segmentation(node) ==
    CASE node = "planner_tools" -> "planner"
      [] node = "parser" -> "calculate_route"
      [] node = "calculate_route" -> "find_accommodation"
      [] node = "generate_waypoints" -> "find_accommodation"
      [] node = "optimiser_tools" -> "optimiser"
      [] node = "reviewer_tools" -> "reviewer"
      [] node = "writer" -> END

\* workflow.add_edge: the node that always follows node
add_edge(node) ==
    CASE node = "planner_tools" -> "planner"
      [] node = "parser" -> "calculate_route"
      [] node = "calculate_route" -> "generate_waypoints"
      [] node = "generate_waypoints" -> "find_accommodation"
      [] node = "optimiser_tools" -> "optimiser"
      [] node = "reviewer_tools" -> "reviewer"
      [] node = "writer" -> END

----------------------------------------------------------------------------
(* The workflow engine: one node execution per step *)

\* mutant: the engine runs a turn without counting its steps
Runnable_unbounded(node) ==
    pc = node /\ outcome = "running"

Runnable(node) ==
    pc = node /\ outcome = "running" /\ Len(path) < RecursionLimit

\* the node completed; the conditional edge chose next
Finish(node, next) ==
    /\ path' = Append(path, node)
    /\ pc' = IF next = END THEN "idle" ELSE next
    /\ outcome' = IF next = END THEN "suspended" ELSE "running"
    /\ at' = IF next = END THEN node ELSE at
    /\ UNCHANGED <<entry, prev, turns, applied, regvars, segvars>>

\* the exception of a node ends the turn
Fail(node) ==
    /\ pc' = "idle"
    /\ outcome' = "failed"
    /\ at' = node
    /\ UNCHANGED <<path, entry, prev, turns, executed, applied, regvars,
                   segvars>>

\* the node raised before it touched anything: no update is applied
Raise(node) ==
    /\ Fail(node)
    /\ UNCHANGED state

\* mutant: the objects the failed node worked on are what the session keeps
Persisted_in_place(checkpoint, working) == working

\* MemorySaver keeps the serialised value written after the last completed
\* step; the objects a failing node mutated in place are dropped with the run
Persisted(checkpoint, working) == checkpoint

----------------------------------------------------------------------------
(* The checkpoint: MemorySaver keeps the channel values in serialised form. *)
(* A pydantic object is stored as the name of its class with its field      *)
(* values and rebuilt by that class; None, booleans and lists as such.      *)

ClassOf(type) ==
    CASE type = "human" -> "HumanMessage"
      [] type = "ai" -> "AIMessage"
      [] type = "tool" -> "ToolMessage"

\* the class sets the type field of the message it builds
TypeOf(cls) ==
    CASE cls = "HumanMessage" -> "human"
      [] cls = "AIMessage" -> "ai"
      [] cls = "ToolMessage" -> "tool"

\* mutant: a message is stored as its role and content, tool requests dropped
dumps_message_content_only(m) ==
    <<ClassOf(m.type), <<>>, m.phrase, m.tool_call_id, m.status>>

dumps_message(m) ==
    <<ClassOf(m.type), m.tool_calls, m.phrase, m.tool_call_id, m.status>>

loads_message(e) ==
    [type |-> TypeOf(e[1]), tool_calls |-> e[2], phrase |-> e[3],
     tool_call_id |-> e[4], status |-> e[5]]

dumps_typed(values) ==
    [messages |-> [i \in DOMAIN values.messages |->
                      dumps_message(values.messages[i])],
     requirements |->
        IF values.requirements.present
        THEN <<"RouteRequirements", values.requirements.daily_distance_km,
               values.requirements.intermediates>>
        ELSE <<"None">>,
     route |-> IF values.route.present
               THEN <<"Route", values.route.via>>
               ELSE <<"None">>,
     segments |->
        IF values.segments.present
        THEN <<"list", [i \in DOMAIN values.segments.list |->
                          <<"Segment", values.segments.list[i].day,
                            values.segments.list[i].accommodation_options>>]>>
        ELSE <<"None">>,
     user_confirmed |-> values.user_confirmed,
     awaiting_user_response |-> values.awaiting_user_response,
     critical_optimization_done |-> values.critical_optimization_done]

loads_typed(data) ==
    [messages |-> [i \in DOMAIN data.messages |->
                      loads_message(data.messages[i])],
     requirements |->
        IF data.requirements[1] = "None" THEN NoRequirements
        ELSE RouteRequirements(data.requirements[2], data.requirements[3]),
     route |-> IF data.route[1] = "None" THEN NoRoute
               ELSE Route(data.route[2]),
     segments |->
        IF data.segments[1] = "None" THEN NoSegments
        ELSE [present |-> TRUE,
              list |-> [i \in DOMAIN data.segments[2] |->
                          Segment(data.segments[2][i][2],
                                  data.segments[2][i][3])]],
     user_confirmed |-> data.user_confirmed,
     awaiting_user_response |-> data.awaiting_user_response,
     critical_optimization_done |-> data.critical_optimization_done]

\* the channel values of the session
Values ==
    [messages |-> messages, requirements |-> requirements, route |-> route,
     segments |-> segments, user_confirmed |-> user_confirmed,
     awaiting_user_response |-> awaiting_user_response,
     critical_optimization_done |-> critical_optimization_done]

\* the state a turn starts from: the checkpoint of the session, reloaded
Reloaded == loads_typed(dumps_typed(Values))

\* stream_chat_response: astream loads the checkpoint of the thread, the
\* user message is appended and the graph starts at its conditional entry
\* point
stream_chat_response ==
    /\ pc = "idle"
    /\ Len(messages) < MaxHistory
    /\ LET loaded == Reloaded IN
          /\ messages' = operator_add(loaded.messages, <<HumanMessage>>)
          /\ requirements' = loaded.requirements
          /\ route' = loaded.route
          /\ segments' = loaded.segments
          /\ user_confirmed' = loaded.user_confirmed
          /\ awaiting_user_response' = loaded.awaiting_user_response
          /\ critical_optimization_done' = loaded.critical_optimization_done
          /\ entry' = determine_entry_point(loaded.user_confirmed,
                                            loaded.awaiting_user_response,
                                            loaded.route, loaded.requirements)
    /\ pc' = entry'
    /\ path' = <<>>
    /\ outcome' = "running"
    /\ at' = "none"
    /\ prev' = <<outcome, at>>
    /\ turns' = turns + 1
    /\ UNCHANGED <<executed, applied, regvars, segvars>>

\* langgraph stops a turn that needs more supersteps than the limit
GraphRecursionError ==
    /\ pc # "idle" /\ outcome = "running"
    /\ Len(path) >= RecursionLimit
    /\ Raise("recursion_limit")

----------------------------------------------------------------------------
(* Model responses: the tool requests (name, argument) a model may return *)

PlannerShapes ==
    { <<>>,
      << <<"RouteRequirements", 50>> >>,
      << <<"RouteRequirements", 0>> >>,
      << <<"get_location", 0>> >>,
      << <<"get_location", 0>>, <<"RouteRequirements", 50>> >>,
      << <<"RouteRequirements", 50>>, <<"get_location", 0>> >> }

OptimiserShapes ==
    { <<>>,
      << <<"confirm_route", 0>> >>,
      << <<"get_route_summary", 0>> >>,
      << <<"adjust_daily_distance", 80>> >>,
      << <<"adjust_daily_distance", 0>> >>,
      << <<"get_route_summary", 0>>, <<"confirm_route", 0>> >> }

----------------------------------------------------------------------------
(* Nodes *)

planner_node ==
    /\ Runnable("planner")
    /\ \/ \E shape \in PlannerShapes :
            LET response == AIMessage(WithIds(shape, Len(messages) + 1), FALSE)
                msgs == operator_add(messages, <<response>>)
            IN  /\ messages' = msgs
                /\ Finish("planner",
                          route_planner(msgs, route, segments, user_confirmed))
                /\ UNCHANGED <<requirements, route, segments, user_confirmed,
                               awaiting_user_response,
                               critical_optimization_done, executed>>
       \/ Raise("planner")      \* the model invocation fails

parse_requirements_node ==
    /\ Runnable("parser")
    /\ LET last_message == Last(messages) IN
       IF last_message.tool_calls = <<>>
       THEN Raise("parser")
       ELSE LET tool_call == last_message.tool_calls[1] IN
            IF tool_call.name # "RouteRequirements"
            THEN Raise("parser")
            ELSE IF ~(tool_call.args > 0)       \* daily_distance_km: gt=0
            THEN Raise("parser")
            ELSE /\ requirements' = RouteRequirements(tool_call.args, <<>>)
                 /\ messages' = operator_add(messages,
                                             <<ToolMessage(tool_call.id, "ok")>>)
                 /\ Finish("parser", add_edge("parser"))
                 /\ UNCHANGED <<route, segments, user_confirmed,
                                awaiting_user_response,
                                critical_optimization_done, executed>>

calculate_route_node ==
    /\ Runnable("calculate_route")
    /\ IF ~Truthy(requirements)
       THEN Raise("calculate_route")
       ELSE \/ /\ route' = Route(requirements.intermediates)
               /\ Finish("calculate_route", add_edge("calculate_route"))
               /\ UNCHANGED <<messages, requirements, segments, user_confirmed,
                              awaiting_user_response,
                              critical_optimization_done, executed>>
            \/ Raise("calculate_route")     \* fetch_route fails

\* the segment lists calculate_segments can return: days 1..n, no lodging yet
NewSegments(n) == [present |-> TRUE, list |-> [i \in 1..n |-> Segment(i, 0)]]

calculate_segments_node ==
    /\ Runnable("generate_waypoints")
    /\ IF ~Truthy(route) \/ ~Truthy(requirements)
       THEN Raise("generate_waypoints")
       ELSE \/ \E n \in 1..MaxSegments :
                 /\ segments' = NewSegments(n)
                 /\ Finish("generate_waypoints",
                           add_edge("generate_waypoints"))
                 /\ UNCHANGED <<messages, requirements, route, user_confirmed,
                                awaiting_user_response,
                                critical_optimization_done, executed>>
            \/ Raise("generate_waypoints")  \* calculate_segments fails

\* the results of get_accommodation for the segments: 0 or 1 option each
Lodging(n) == [1..n -> 0..1]

find_accommodation_node ==
    /\ Runnable("find_accommodation")
    /\ IF ~TruthyList(segments)
       THEN Raise("find_accommodation")
       ELSE \/ \E opts \in Lodging(Len(segments.list)) :
                 /\ segments' =
                      [segments EXCEPT !.list =
                         [i \in DOMAIN segments.list |->
                            [segments.list[i] EXCEPT !.accommodation_options
                                                        = @ + opts[i]]]]
                 /\ Finish("find_accommodation",
                           route_after_accommodation(critical_optimization_done))
                 /\ UNCHANGED <<messages, requirements, route, user_confirmed,
                                awaiting_user_response,
                                critical_optimization_done, executed>>
            \* get_accommodation raises at segment k + 1, after the options
            \* of segments 1..k were added in place
            \/ \E k \in 0..(Len(segments.list) - 1) :
                 \E opts \in Lodging(Len(segments.list)) :
                    LET working ==
                          [segments EXCEPT !.list =
                             [i \in DOMAIN segments.list |->
                                [segments.list[i] EXCEPT !.accommodation_options
                                    = IF i <= k THEN @ + opts[i] ELSE @]]]
                    IN  /\ segments' = Persisted(segments, working)
                        /\ Fail("find_accommodation")
                        /\ UNCHANGED <<messages, requirements, route,
                                       user_confirmed, awaiting_user_response,
                                       critical_optimization_done>>

\* mutant: the node itself records the confirmation it sees in the response
optimiser_updates_confirming(response, uc) ==
    [messages |-> <<response>>,
     user_confirmed |-> (uc \/ "confirm_route" \in ToolNames(response))]

\* the update optimiser_node returns: the response, nothing else
optimiser_updates(response, uc) ==
    [messages |-> <<response>>, user_confirmed |-> uc]

optimiser_node ==
    /\ Runnable("optimiser")
    /\ IF ~TruthyList(segments) \/ ~Truthy(requirements)
       THEN Raise("optimiser")
       ELSE \/ \E shape \in OptimiserShapes :
                 LET response == AIMessage(WithIds(shape, Len(messages) + 1),
                                           FALSE)
                     updates == optimiser_updates(response, user_confirmed)
                     msgs == operator_add(messages, updates.messages)
                 IN  /\ messages' = msgs
                     /\ user_confirmed' = updates.user_confirmed
                     /\ Finish("optimiser", route_optimiser(msgs))
                     /\ UNCHANGED <<requirements, route, segments,
                                    awaiting_user_response,
                                    critical_optimization_done, executed>>
            \/ Raise("optimiser")   \* the model invocation fails

\* mutant: the overview is attempted without segments
reviewer_requires_no_segments(rq, rt, sg) == Truthy(rq) /\ Truthy(rt)

\* the validation at the head of reviewer_node
reviewer_requires(rq, rt, sg) == Truthy(rq) /\ Truthy(rt) /\ TruthyList(sg)

reviewer_node ==
    /\ Runnable("reviewer")
    /\ IF ~reviewer_requires(requirements, route, segments)
       THEN Raise("reviewer")
       ELSE \/ \E ph \in BOOLEAN :
                 /\ messages' = operator_add(messages, <<AIMessage(<<>>, ph)>>)
                 /\ Finish("reviewer", route_reviewer(user_confirmed))
                 /\ UNCHANGED <<requirements, route, segments, user_confirmed,
                                awaiting_user_response,
                                critical_optimization_done, executed>>
            \/ Raise("reviewer")    \* the model invocation fails

\* state.waypoints is read, a field no node of the graph writes
itinerary_writer_node ==
    /\ Runnable("writer")
    /\ Raise("writer")

----------------------------------------------------------------------------
(* Tools: each gives the set of its possible outcomes on the state the tool *)
(* node received.  An outcome raises, or carries the status of its tool    *)
(* message and the fields of its Command update (<<>>: field not named);   *)
(* command tells a Command from a plain return value, and msgs holds the   *)
(* tool_call_id of each ToolMessage of the Command.                        *)

Plain == [raises |-> FALSE, status |-> "ok", uc |-> FALSE,
          rq |-> <<>>, rt |-> <<>>, sg |-> <<>>,
          command |-> FALSE, msgs |-> <<>>]
Raised == [Plain EXCEPT !.raises = TRUE]
InvalidTool == [Plain EXCEPT !.status = "error"]
\* the tool returned Command(update={...})
Command == [Plain EXCEPT !.command = TRUE]

\* mutant: the Command of a tool carries no ToolMessage
command_messages_none(tool_call_id) == <<>>

\* "messages": [ToolMessage(content=..., tool_call_id=runtime.tool_call_id)]
command_messages(tool_call_id) == <<tool_call_id>>

confirm_route(tool_call_id) ==
    {[Command EXCEPT !.uc = TRUE, !.msgs = command_messages(tool_call_id)]}

validate_route_state(rt, rq) == Truthy(rt) /\ Truthy(rq)
validate_segments_state(sg) == TruthyList(sg)

get_route_summary(rt, rq, sg) ==
    IF validate_route_state(rt, rq) /\ validate_segments_state(sg)
    THEN {Plain}
    ELSE {Raised}

\* what get_accommodation does for one segment: it raises, or returns a
\* list of options (here: one option)
Failed == [raises |-> TRUE, options |-> 0]
Found == [raises |-> FALSE, options |-> 1]
Lookups(n) == [1..n -> {Failed, Found}]

\* mutant: the first lookup that raises ends the search for the segments
\* after it
accommodation_loop_stopping(segs, lookups) ==
    [i \in DOMAIN segs |->
        [segs[i] EXCEPT !.accommodation_options =
            IF \E k \in 1..i : lookups[k].raises THEN 0
            ELSE lookups[i].options]]

\* for segment in segments: try get_accommodation, except Exception: []
accommodation_loop(segs, lookups) ==
    [i \in DOMAIN segs |->
        [segs[i] EXCEPT !.accommodation_options =
            IF lookups[i].raises THEN 0 ELSE lookups[i].options]]

\* the lists recalculate_segments_with_accommodation can return to a tool:
\* calculate_segments, then the accommodation loop
recalculate_segments_with_accommodation ==
    UNION { { [present |-> TRUE,
               list |-> accommodation_loop(NewSegments(n).list, lookups)] :
              lookups \in Lookups(n) } : n \in 1..MaxSegments }

\* mutant: the new daily distance is taken as the model gave it
daily_distance_out_of_range_unchecked(new_daily_distance_km) == FALSE

\* mutant: the ends of the range are refused as well
daily_distance_out_of_range_exclusive(new_daily_distance_km) ==
    new_daily_distance_km <= 20 \/ new_daily_distance_km >= 200

\* the range test of adjust_daily_distance; model_copy(update=...) that
\* follows it does not validate the field
daily_distance_out_of_range(new_daily_distance_km) ==
    new_daily_distance_km < 20 \/ new_daily_distance_km > 200

adjust_daily_distance(rt, rq, new_daily_distance_km, tool_call_id) ==
    IF ~validate_route_state(rt, rq)
    THEN {Raised}
    ELSE IF daily_distance_out_of_range(new_daily_distance_km)
    THEN {Raised}
    ELSE { [Command EXCEPT
              !.sg = <<new_segments>>,
              !.rq = <<[rq EXCEPT !.daily_distance_km = new_daily_distance_km]>>,
              !.msgs = command_messages(tool_call_id)] :
           new_segments \in recalculate_segments_with_accommodation }

\* list.insert(i, x): an index beyond either end is clamped to that end,
\* a negative one counts from the end
list_insert(l, i, x) ==
    LET at_index == IF i < 0
                    THEN (IF Len(l) + i < 0 THEN 0 ELSE Len(l) + i)
                    ELSE (IF i > Len(l) THEN Len(l) ELSE i)
    IN  SubSeq(l, 1, at_index) \o <<x>> \o SubSeq(l, at_index + 1, Len(l))

\* list.pop(i), for -len(l) <= i < len(l): a negative index counts from the
\* end (any other index raises IndexError)
list_pop(l, i) ==
    LET at_index == IF i < 0 THEN Len(l) + i ELSE i
    IN  SubSeq(l, 1, at_index) \o SubSeq(l, at_index + 2, Len(l))

\* mutant: the position is handed to list.insert as the model gave it
insert_position_out_of_range_unchecked(insert_position, l) == FALSE

\* insert_position < 0 or insert_position > len(new_intermediates)
insert_position_out_of_range(insert_position, l) ==
    insert_position < 0 \/ insert_position > Len(l)

\* args: waypoint_name, and insert_position as <<>> (None) or <<p>>;
\* geocode_location and fetch_route may fail
add_intermediate_waypoint(rt, rq, args, tool_call_id) ==
    IF ~validate_route_state(rt, rq)
    THEN {Raised}
    ELSE LET p == args.insert_position
             l == rq.intermediates
         IN  IF p # <<>> /\ insert_position_out_of_range(p[1], l)
             THEN {Raised}
             ELSE LET new_intermediates ==
                        IF p # <<>>
                        THEN list_insert(l, p[1], args.waypoint_name)
                        ELSE Append(l, args.waypoint_name)
                  IN  {Raised} \cup
                      { [Command EXCEPT
                           !.rt = <<Route(new_intermediates)>>,
                           !.sg = <<new_segments>>,
                           !.rq = <<[rq EXCEPT !.intermediates
                                                  = new_intermediates]>>,
                           !.msgs = command_messages(tool_call_id)] :
                        new_segments
                            \in recalculate_segments_with_accommodation }

\* mutant: only an index past the end is refused
waypoint_index_invalid_past_end(waypoint_index, l) ==
    waypoint_index >= Len(l)

\* waypoint_index < 0 or waypoint_index >= len(requirements.intermediates)
waypoint_index_invalid(waypoint_index, l) ==
    waypoint_index < 0 \/ waypoint_index >= Len(l)

\* fetch_route may fail
remove_intermediate_waypoint(rt, rq, waypoint_index, tool_call_id) ==
    IF ~validate_route_state(rt, rq)
    THEN {Raised}
    ELSE IF rq.intermediates = <<>>
    THEN {Raised}
    ELSE IF waypoint_index_invalid(waypoint_index, rq.intermediates)
    THEN {Raised}
    ELSE LET new_intermediates == list_pop(rq.intermediates, waypoint_index)
         IN  {Raised} \cup
             { [Command EXCEPT
                  !.rt = <<Route(new_intermediates)>>,
                  !.sg = <<new_segments>>,
                  !.rq = <<[rq EXCEPT !.intermediates = new_intermediates]>>,
                  !.msgs = command_messages(tool_call_id)] :
               new_segments \in recalculate_segments_with_accommodation }

\* the origin and the destination are not fields of the modelled
\* requirements; intermediate_names replaces the intermediates when it is
\* not empty; geocode_location and fetch_route may fail
recalculate_complete_route(rt, rq, intermediate_names, tool_call_id) ==
    IF ~validate_route_state(rt, rq)
    THEN {Raised}
    ELSE LET intermediates == IF intermediate_names # <<>>
                              THEN intermediate_names
                              ELSE rq.intermediates
         IN  {Raised} \cup
             { [Command EXCEPT
                  !.rt = <<Route(intermediates)>>,
                  !.sg = <<new_segments>>,
                  !.rq = <<[rq EXCEPT !.intermediates = intermediates]>>,
                  !.msgs = command_messages(tool_call_id)] :
               new_segments \in recalculate_segments_with_accommodation }

get_location == {Plain, Raised}     \* geocode_location may fail

get_weather == {Plain}

\* the tools of OPTIMISATION_TOOLS that the modelled responses name
OPTIMISATION_TOOLS ==
    {"confirm_route", "get_route_summary", "adjust_daily_distance",
     "add_intermediate_waypoint", "remove_intermediate_waypoint",
     "recalculate_complete_route", "get_weather"}

\* the outcomes of one tool call at a tool node with the registered tools
ToolOutcomes(call, registered) ==
    IF call.name \notin registered THEN {InvalidTool}
    ELSE CASE call.name = "confirm_route" -> confirm_route(call.id)
           [] call.name = "get_route_summary" ->
                 get_route_summary(route, requirements, segments)
           [] call.name = "adjust_daily_distance" ->
                 adjust_daily_distance(route, requirements, call.args,
                                       call.id)
           [] call.name = "add_intermediate_waypoint" ->
                 add_intermediate_waypoint(route, requirements, call.args,
                                           call.id)
           [] call.name = "remove_intermediate_waypoint" ->
                 remove_intermediate_waypoint(route, requirements, call.args,
                                              call.id)
           [] call.name = "recalculate_complete_route" ->
                 recalculate_complete_route(route, requirements, call.args,
                                            call.id)
           [] call.name = "get_location" -> get_location
           [] call.name = "get_weather" -> get_weather
           [] OTHER -> {InvalidTool}

\* the last value written to a field by the outcomes rs, else its old value
Written(rs, field, old) ==
    IF \E i \in DOMAIN rs : rs[i][field] # <<>>
    THEN (rs[CHOOSE i \in DOMAIN rs : rs[i][field] # <<>>][field])[1]
    ELSE old

\* a field without reducer takes one value per step
Conflict(rs) ==
    \/ Cardinality({i \in DOMAIN rs : rs[i].uc}) > 1
    \/ Cardinality({i \in DOMAIN rs : rs[i].rq # <<>>}) > 1
    \/ Cardinality({i \in DOMAIN rs : rs[i].rt # <<>>}) > 1
    \/ Cardinality({i \in DOMAIN rs : rs[i].sg # <<>>}) > 1

\* the messages of the outcomes, in call order: those of a Command, or the
\* ToolMessage the tool node builds around a plain return value
RECURSIVE ToolMessages(_, _, _)
ToolMessages(calls, rs, i) ==
    IF i > Len(calls) THEN <<>>
    ELSE (IF rs[i].command
          THEN [k \in DOMAIN rs[i].msgs |-> ToolMessage(rs[i].msgs[k], "ok")]
          ELSE <<ToolMessage(calls[i].id, rs[i].status)>>)
         \o ToolMessages(calls, rs, i + 1)

\* ToolNode(tools): every tool call of the last message is run on the state
\* the node received; the tool messages are appended in call order and the
\* Command updates applied; then control returns to the node named back
ToolNode(node, registered, back) ==
    /\ Runnable(node)
    /\ LET calls == Last(messages).tool_calls
           All == UNION {ToolOutcomes(calls[i], registered) : i \in DOMAIN calls}
       IN  IF calls = <<>>
           THEN Raise(node)
           ELSE \E rs \in [DOMAIN calls -> All] :
                  /\ \A i \in DOMAIN calls :
                        rs[i] \in ToolOutcomes(calls[i], registered)
                  /\ IF (\E i \in DOMAIN rs : rs[i].raises) \/ Conflict(rs)
                     THEN Raise(node)
                     ELSE /\ messages' = operator_add(messages,
                               ToolMessages(calls, rs, 1))
                          /\ user_confirmed' =
                               (user_confirmed \/ \E i \in DOMAIN rs : rs[i].uc)
                          /\ requirements' = Written(rs, "rq", requirements)
                          /\ route' = Written(rs, "rt", route)
                          /\ segments' = Written(rs, "sg", segments)
                          /\ executed' = executed \o
                               SelectSeq([i \in DOMAIN calls |-> calls[i].name],
                                         LAMBDA n : n \in registered)
                          /\ Finish(node, back)
                          /\ UNCHANGED <<awaiting_user_response,
                                         critical_optimization_done>>

planner_tools ==
    ToolNode("planner_tools", {"get_location"}, add_edge("planner_tools"))

optimiser_tools ==
    ToolNode("optimiser_tools", OPTIMISATION_TOOLS,
             add_edge("optimiser_tools"))

reviewer_tools ==
    ToolNode("reviewer_tools", {"get_weather"}, add_edge("reviewer_tools"))

----------------------------------------------------------------------------
(* The session registry: SessionManager, called from request threads.  A    *)
(* thread makes one call at a time; inside a call it takes the lock, runs   *)
(* the body of the with-block one dictionary access per step, releases.     *)

Threads == 1..MaxThreads
SessionIds == 1..MaxSessions

NoSession == [present |-> FALSE, message_count |-> 0]
Idle == [op |-> "none", sid |-> 0, pc |-> "idle", tmp |-> 0, chat |-> FALSE]

\* mutant: the with-block is entered without waiting for the lock
CanAcquire_unlocked(l) == TRUE

\* with self._lock: a thread enters when no thread holds the lock
CanAcquire(l) == l = 0

RegInit ==
    /\ sessions = [sid \in SessionIds |-> NoSession]
    /\ lock = 0
    /\ thr = [t \in Threads |-> Idle]
    /\ created = 0
    /\ begun = 0
    /\ increments = [sid \in SessionIds |-> 0]
    /\ deleted = {}

\* a request thread enters a registry method
Call(t, op, sid, chat) ==
    /\ thr[t].pc = "idle"
    /\ thr' = [thr EXCEPT ![t] = [op |-> op, sid |-> sid, pc |-> "lock",
                                  tmp |-> 0, chat |-> chat]]
    /\ UNCHANGED <<agentvars, segvars, sessions, lock, increments, deleted>>

\* uuid4 gives an id no session has had
CallCreate(t) ==
    /\ created < MaxSessions
    /\ created' = created + 1
    /\ Call(t, "create_session", created + 1, FALSE)
    /\ UNCHANGED begun

CallRead(t) ==
    \E op \in {"session_exists", "get_session_info", "delete_session"} :
      \E sid \in SessionIds :
        /\ Call(t, op, sid, FALSE)
        /\ UNCHANGED <<created, begun>>

CallUpdate(t) ==
    \E sid \in SessionIds :
        /\ begun < MaxUpdates
        /\ begun' = begun + 1
        /\ Call(t, "update_session", sid, FALSE)
        /\ UNCHANGED created

\* POST /chats/stream with a session id: session_exists, then the turn,
\* then update_session
chat_stream(t) ==
    \E sid \in SessionIds :
        /\ begun < MaxUpdates
        /\ begun' = begun + 1
        /\ Call(t, "session_exists", sid, TRUE)
        /\ UNCHANGED created

Acquire(t) ==
    /\ thr[t].pc = "lock"
    /\ CanAcquire(lock)
    /\ lock' = t
    /\ thr' = [thr EXCEPT ![t].pc = "locked"]
    /\ UNCHANGED <<agentvars, segvars, sessions, created, begun, increments,
                   deleted>>

\* one step inside a with-block: pc and tmp of the thread, the registry
Step(t, next, tmp, reg) ==
    /\ thr' = [thr EXCEPT ![t].pc = next, ![t].tmp = tmp]
    /\ sessions' = reg
    /\ UNCHANGED <<agentvars, segvars, lock, created, begun>>

create_session(t) ==
    /\ thr[t].pc = "locked" /\ thr[t].op = "create_session"
    /\ Step(t, "release", 0,
            [sessions EXCEPT ![thr[t].sid] =
                [present |-> TRUE, message_count |-> 0]])
    /\ UNCHANGED <<increments, deleted>>

session_exists(t) ==
    /\ thr[t].pc = "locked" /\ thr[t].op = "session_exists"
    /\ Step(t, "release", IF sessions[thr[t].sid].present THEN 1 ELSE 0,
            sessions)
    /\ UNCHANGED <<increments, deleted>>

\* session = self._sessions.get(session_id), then the fields are read
get_session_info(t) ==
    /\ thr[t].op = "get_session_info"
    /\ \/ /\ thr[t].pc = "locked"
          /\ Step(t, IF sessions[thr[t].sid].present THEN "found"
                     ELSE "release", 0, sessions)
       \/ /\ thr[t].pc = "found"
          /\ Step(t, "release", 1 + sessions[thr[t].sid].message_count,
                  sessions)
    /\ UNCHANGED <<increments, deleted>>

\* if session_id in self._sessions: ...["message_count"] += 1
update_session(t) ==
    /\ thr[t].op = "update_session"
    /\ \/ /\ thr[t].pc = "locked"
          /\ Step(t, IF sessions[thr[t].sid].present THEN "read"
                     ELSE "release", 0, sessions)
          /\ UNCHANGED increments
       \/ /\ thr[t].pc = "read"
          /\ Step(t, IF sessions[thr[t].sid].present THEN "write"
                     ELSE "release",
                  sessions[thr[t].sid].message_count, sessions)
          /\ UNCHANGED increments
       \/ /\ thr[t].pc = "write"
          /\ IF sessions[thr[t].sid].present
             THEN /\ Step(t, "release", 0,
                          [sessions EXCEPT ![thr[t].sid].message_count =
                                               thr[t].tmp + 1])
                  /\ increments' = [increments EXCEPT ![thr[t].sid] = @ + 1]
             ELSE /\ Step(t, "release", 0, sessions)
                  /\ UNCHANGED increments
    /\ UNCHANGED deleted

delete_session(t) ==
    /\ thr[t].op = "delete_session"
    /\ \/ /\ thr[t].pc = "locked"
          /\ Step(t, IF sessions[thr[t].sid].present THEN "del"
                     ELSE "release", 0, sessions)
          /\ UNCHANGED <<increments, deleted>>
       \/ /\ thr[t].pc = "del"
          /\ Step(t, "release", 1,
                  [sessions EXCEPT ![thr[t].sid] = NoSession])
          /\ deleted' = deleted \cup {thr[t].sid}
          /\ increments' = [increments EXCEPT ![thr[t].sid] = 0]

\* the with-block is left; chat_stream goes on to the turn when the session
\* exists and answers 404 otherwise
Release(t) ==
    /\ thr[t].pc = "release"
    /\ lock' = 0
    /\ thr' = [thr EXCEPT ![t] =
                  IF thr[t].chat /\ thr[t].op = "session_exists"
                     /\ thr[t].tmp = 1
                  THEN [@ EXCEPT !.pc = "streaming"]
                  ELSE Idle]
    /\ UNCHANGED <<agentvars, segvars, sessions, created, begun, increments,
                   deleted>>

\* stream_chat_response: the turn ends; update_session follows unless the
\* turn raised
StreamEnds(t) ==
    /\ thr[t].pc = "streaming"
    /\ \/ thr' = [thr EXCEPT ![t].op = "update_session", ![t].pc = "lock"]
       \/ thr' = [thr EXCEPT ![t] = Idle]
    /\ UNCHANGED <<agentvars, segvars, sessions, lock, created, begun, increments,
                   deleted>>

NextReg ==
    \E t \in Threads :
        \/ CallCreate(t)
        \/ CallRead(t)
        \/ CallUpdate(t)
        \/ chat_stream(t)
        \/ Acquire(t)
        \/ create_session(t)
        \/ session_exists(t)
        \/ get_session_info(t)
        \/ update_session(t)
        \/ delete_session(t)
        \/ Release(t)
        \/ StreamEnds(t)

----------------------------------------------------------------------------
(* calculate_segments.  A polyline is the sequence of the lengths of its    *)
(* edges, in km: edge i joins point i and point i + 1.  A Location is a     *)
(* name and the point of its coordinates; the route starts at the first     *)
(* point and ends at the last.                                              *)

Location(name, point) == [name |-> name, point |-> point]
route_origin == Location("origin", 1)
route_destination(edges) == Location("destination", Len(edges) + 1)

\* the names reverse_geocode may give to a point
PlaceNames == {"place", "destination"}

\* Segment(day=..., route=..., accommodation_options=[])
SegmentOf(day, origin, destination) ==
    [day |-> day, origin |-> origin, destination |-> destination,
     accommodation_options |-> 0]

\* the for loop over the edges, from edge i on; g: the reverse-geocoded names
RECURSIVE SplitLoop(_, _, _, _, _, _, _, _, _)
SplitLoop(edges, daily, g, i, cumulative, target, start_idx, day_number, segs) ==
    IF i > Len(edges)
    THEN [segments |-> segs, segment_start_idx |-> start_idx,
          day_number |-> day_number]
    ELSE LET cum == cumulative + edges[i] IN
         IF cum >= target
         THEN SplitLoop(edges, daily, g, i + 1, cum, target + daily,
                        i + 1, day_number + 1,
                        Append(segs,
                            SegmentOf(day_number,
                                IF start_idx = 1 THEN route_origin
                                ELSE Location(g[start_idx],
                                              start_idx),
                                Location(g[i + 1], i + 1))))
         ELSE SplitLoop(edges, daily, g, i + 1, cum, target,
                        start_idx, day_number, segs)

\* mutant: the points after the last split are left out
NeedsFinalSegment_never(segment_start_idx, edges) == FALSE

\* the final segment is added when points remain after the last split
NeedsFinalSegment(segment_start_idx, edges) ==
    segment_start_idx < Len(edges) + 1

\* segments[i + 1].route.origin = segments[i].route.destination
LinkOrigins(segs) ==
    [k \in DOMAIN segs |->
        IF k = 1 THEN segs[k]
        ELSE [segs[k] EXCEPT !.origin = segs[k - 1].destination]]

calculate_segments(edges, daily, g) ==
    LET loop == SplitLoop(edges, daily, g, 1, 0, daily, 1, 1, <<>>)
        start == loop.segment_start_idx
        all == IF NeedsFinalSegment(start, edges)
               THEN Append(loop.segments,
                        SegmentOf(loop.day_number,
                            IF start = 1 THEN route_origin
                            ELSE Location(g[start], start),
                            route_destination(edges)))
               ELSE loop.segments
    IN  LinkOrigins(all)

Polylines ==
    UNION { [1..n -> 0..MaxEdgeKm] : n \in 1..MaxEdges }

NoInput == [edges |-> <<>>, daily |-> 0]
NoExternals == [names |-> <<>>, lookups |-> <<>>]

SegInit ==
    /\ seg_in = NoInput
    /\ seg_out = <<>>
    /\ seg_ext = NoExternals

\* one call of calculate_segments; reverse_geocode names the points
ApplySegments ==
    /\ seg_out = <<>>
    /\ \E g \in [1..(Len(seg_in.edges) + 1) -> PlaceNames] :
          /\ seg_out' = calculate_segments(seg_in.edges, seg_in.daily, g)
          /\ seg_ext' = [seg_ext EXCEPT !.names = g]
    /\ UNCHANGED <<agentvars, regvars, seg_in>>

\* one call of recalculate_segments_with_accommodation on the route:
\* calculate_segments, then get_accommodation for each segment it returned
ApplyRecalculate ==
    /\ seg_out = <<>>
    /\ \E g \in [1..(Len(seg_in.edges) + 1) -> PlaceNames] :
          LET segs == calculate_segments(seg_in.edges, seg_in.daily, g) IN
          \E lookups \in Lookups(Len(segs)) :
             /\ seg_out' = accommodation_loop(segs, lookups)
             /\ seg_ext' = [names |-> g, lookups |-> lookups]
    /\ UNCHANGED <<agentvars, regvars, seg_in>>

NextSeg == ApplySegments \/ ApplyRecalculate

----------------------------------------------------------------------------
(* One session *)

AgentInit ==
    /\ messages = <<>>
    /\ requirements = NoRequirements
    /\ route = NoRoute
    /\ segments = NoSegments
    /\ user_confirmed = FALSE
    /\ awaiting_user_response = FALSE
    /\ critical_optimization_done = FALSE
    /\ pc = "idle"
    /\ path = <<>>
    /\ entry = "none"
    /\ outcome = "none"
    /\ at = "none"
    /\ prev = <<"none", "none">>
    /\ turns = 0
    /\ executed = <<>>
    /\ applied = "none"

Init == AgentInit /\ RegInit /\ SegInit

\* itinerary_writer_node and reviewer_tools are nodes of the graph no session
\* reaches (user_confirmed stays false, route_reviewer never names
\* reviewer_tools); they are exercised in SpecPred
Next ==
    \/ stream_chat_response
    \/ planner_node
    \/ planner_tools
    \/ parse_requirements_node
    \/ calculate_route_node
    \/ calculate_segments_node
    \/ find_accommodation_node
    \/ optimiser_node
    \/ optimiser_tools
    \/ reviewer_node
    \/ GraphRecursionError

Spec == Init /\ [][Next]_vars

\* astream drives a turn it has started until the graph suspends or raises;
\* whether a further user message arrives is left open
TurnStep == pc # "idle" /\ Next
SpecLive == Spec /\ WF_vars(TurnStep)

----------------------------------------------------------------------------
(* Predicates and nodes on drawn states *)

PredMessages ==
    { HumanMessage, AIMessage(<<>>, FALSE), AIMessage(<<>>, TRUE),
      ToolMessage(11, "ok") }
    \cup { AIMessage(WithIds(shape, 2), FALSE) :
             shape \in (PlannerShapes \cup OptimiserShapes
                        \cup { << <<"get_weather", 0>> >> }) \ {<<>>} }

PredLogs ==
    { <<m>> : m \in PredMessages }
    \cup { <<a, m>> : a \in {HumanMessage, AIMessage(<<>>, FALSE),
                             AIMessage(<<>>, TRUE)},
                      m \in PredMessages }

InitPred ==
    /\ messages \in PredLogs
    /\ requirements \in {NoRequirements, RouteRequirements(50, <<>>)}
    /\ route \in {NoRoute, Route(<<>>)}
    /\ segments \in {NoSegments, [present |-> TRUE, list |-> <<>>],
                     NewSegments(1),
                     [present |-> TRUE, list |-> <<Segment(1, 1)>>]}
    /\ user_confirmed \in BOOLEAN
    /\ awaiting_user_response \in BOOLEAN
    /\ critical_optimization_done \in BOOLEAN
    /\ pc \in {"pred", "calculate_route", "generate_waypoints",
              "find_accommodation", "reviewer_tools"}
    /\ path = <<>>
    /\ entry = "none"
    /\ outcome = "running"
    /\ at = "none"
    /\ prev = <<"none", "none">>
    /\ turns = 0
    /\ executed = <<>>
    /\ applied = "none"
    /\ RegInit
    /\ SegInit

Apply(name, result) ==
    /\ pc = "pred"
    /\ applied' = name
    /\ pc' = result
    /\ UNCHANGED <<state, path, entry, outcome, at, prev, turns, executed,
                   regvars, segvars>>

\* mutant: the resolver takes the waiting flag down when it has read it
awaiting_after_entry_point_cleared(aw) == FALSE

\* the resolver returns a node name and nothing else: the flag is left as it
\* was ("We don't clear the flag here")
awaiting_after_entry_point(aw) == aw

\* set_conditional_entry_point: the resolver is evaluated on the state
ApplyEntryPoint ==
    /\ pc = "pred"
    /\ applied' = "determine_entry_point"
    /\ pc' = determine_entry_point(user_confirmed, awaiting_user_response,
                                   route, requirements)
    /\ entry' = pc'
    /\ awaiting_user_response' =
          awaiting_after_entry_point(awaiting_user_response)
    /\ UNCHANGED <<messages, requirements, route, segments, user_confirmed,
                   critical_optimization_done, path, outcome, at, prev,
                   turns, executed, regvars, segvars>>

\* the resolver is evaluated, and evaluated again on the state the first
\* evaluation left, before any node runs: entry keeps the first answer
ReapplyEntryPoint ==
    /\ pc = "pred"
    /\ applied' = "determine_entry_point_again"
    /\ entry' = determine_entry_point(user_confirmed, awaiting_user_response,
                                      route, requirements)
    /\ LET aw == awaiting_after_entry_point(awaiting_user_response) IN
          /\ pc' = determine_entry_point(user_confirmed, aw, route,
                                         requirements)
          /\ awaiting_user_response' = awaiting_after_entry_point(aw)
    /\ UNCHANGED <<messages, requirements, route, segments, user_confirmed,
                   critical_optimization_done, path, outcome, at, prev,
                   turns, executed, regvars, segvars>>

ApplyRoutePlanner ==
    Apply("route_planner",
          route_planner(messages, route, segments, user_confirmed))

ApplyRouteOptimiser == Apply("route_optimiser", route_optimiser(messages))

ApplyRouteReviewer == Apply("route_reviewer", route_reviewer(user_confirmed))

NextPred ==
    \/ ApplyEntryPoint
    \/ ReapplyEntryPoint
    \/ ApplyRoutePlanner
    \/ ApplyRouteOptimiser
    \/ ApplyRouteReviewer
    \/ planner_node
    \/ calculate_route_node
    \/ calculate_segments_node
    \/ find_accommodation_node
    \/ optimiser_node
    \/ reviewer_node
    \/ reviewer_tools
    \/ itinerary_writer_node

SpecPred == InitPred /\ [][NextPred]_vars

\* the registry starts empty (SessionManager.__init__), no turn has run
SpecReg == Init /\ [][NextReg]_vars

InitSeg ==
    /\ AgentInit
    /\ RegInit
    /\ seg_in \in [edges : Polylines, daily : 1..MaxDailyKm]
    /\ seg_out = <<>>
    /\ seg_ext = NoExternals

SpecSeg == InitSeg /\ [][NextSeg]_vars

----------------------------------------------------------------------------
(* The optimiser's tool node on drawn states and requests *)

WaypointNames == {"a", "b"}

Intermediates ==
    UNION { [1..n -> WaypointNames] : n \in 0..MaxIntermediates }

\* requests whose argument is an integer (0 for a tool without arguments)
IntCalls ==
    { <<"confirm_route", 0>>, <<"get_route_summary", 0>>,
      <<"get_weather", 0>> }
    \cup { <<"adjust_daily_distance", d>> : d \in {19, 20, 200, 201} }
    \cup { <<"remove_intermediate_waypoint", i>> :
             i \in (-1)..MaxIntermediates }

AddCalls ==
    { <<"add_intermediate_waypoint",
        [waypoint_name |-> "c", insert_position |-> p]>> :
      p \in {<<>>} \cup { <<i>> : i \in (-1)..(MaxIntermediates + 1) } }

RecalculateCalls ==
    { <<"recalculate_complete_route", names>> :
      names \in {<<>>, <<"c">>, <<"c", "a">>} }

\* the response holds one request, or confirm_route and one request
ToolResponse(head, call) ==
    <<HumanMessage, AIMessage(WithIds(head \o <<call>>, 2), FALSE)>>

InitTool ==
    /\ requirements \in {NoRequirements}
          \cup { RouteRequirements(50, l) : l \in Intermediates }
    /\ route \in {NoRoute, Route(requirements.intermediates)}
    /\ segments \in {NoSegments, NewSegments(1)}
    /\ \E head \in {<<>>, << <<"confirm_route", 0>> >>} :
          \/ \E call \in IntCalls : messages = ToolResponse(head, call)
          \/ \E call \in AddCalls : messages = ToolResponse(head, call)
          \/ \E call \in RecalculateCalls :
                messages = ToolResponse(head, call)
    /\ user_confirmed = FALSE
    /\ awaiting_user_response = FALSE
    /\ critical_optimization_done = FALSE
    /\ pc = "optimiser_tools"
    /\ path = <<>>
    /\ entry = "none"
    /\ outcome = "running"
    /\ at = "none"
    /\ prev = <<"none", "none">>
    /\ turns = 0
    /\ executed = <<>>
    /\ applied = "none"
    /\ RegInit
    /\ SegInit

NextTool == optimiser_tools

SpecTool == InitTool /\ [][NextTool]_vars

----------------------------------------------------------------------------
(* Properties *)

\* node n has just completed: the graph is about to run NextNode
AfterNode(n) ==
    /\ path # <<>> /\ Last(path) = n
    /\ outcome \in {"running", "suspended"}
NextNode == IF outcome = "suspended" THEN END ELSE pc

LastCalls == Last(messages).tool_calls
Requested(name) ==
    \E i \in DOMAIN messages : name \in ToolNames(messages[i])
Executed(name) == \E i \in DOMAIN executed : executed[i] = name

\* C1: determine_entry_point chooses writer if user_confirmed, else optimiser
\* if awaiting_user_response and a route exists, else reviewer if route and
\* requirements exist, else planner
C1_EntryPriority ==
    applied = "determine_entry_point" /\ outcome = "running" /\ path = <<>> =>
        /\ user_confirmed => pc = "writer"
        /\ ~user_confirmed /\ awaiting_user_response /\ route.present
              => pc = "optimiser"
        /\ ~user_confirmed /\ ~(awaiting_user_response /\ route.present)
              /\ route.present /\ requirements.present
              => pc = "reviewer"
        /\ ~user_confirmed /\ ~(awaiting_user_response /\ route.present)
              /\ ~(route.present /\ requirements.present)
              => pc = "planner"

C1_Witness ==
    /\ applied = "determine_entry_point"
    /\ awaiting_user_response /\ route.present /\ requirements.present
    /\ ~user_confirmed
    /\ pc = "optimiser"

\* C2 (the claim as stated): after a turn that suspended at Review the next
\* user message is resolved to Optimization, and if Optimization then
\* requests confirm_route, user_confirmed becomes true and the turn runs
\* Review and then Itinerary-Writing before it suspends
C2_ScenarioD ==
    prev = <<"suspended", "reviewer">> =>
        /\ entry = "optimiser"
        /\ AfterNode("optimiser") /\ "confirm_route" \in ToolNames(Last(messages))
              => NextNode = "reviewer"
        /\ pc = "reviewer" /\ Requested("confirm_route") => user_confirmed
        /\ outcome = "suspended" /\ Requested("confirm_route")
              => /\ user_confirmed
                 /\ Len(path) >= 2
                 /\ path[Len(path) - 1] = "reviewer"
                 /\ Last(path) = "writer"

\* C3 (the claim as stated): between turns awaiting_user_response is true
\* exactly when the last turn suspended at Review with user_confirmed false
C3_AwaitingAfterReview ==
    pc = "idle" =>
        (awaiting_user_response <=>
            (outcome = "suspended" /\ at = "reviewer" /\ ~user_confirmed))

C6_OptimiserRouting ==
    AfterNode("optimiser") =>
        /\ "confirm_route" \in ToolNames(Last(messages))
              => NextNode = "reviewer"
        /\ LastCalls # <<>> /\ "confirm_route" \notin ToolNames(Last(messages))
              => NextNode = "optimiser_tools"
        /\ LastCalls = <<>> => NextNode = "reviewer"

C6_Witness ==
    /\ AfterNode("optimiser")
    /\ Len(LastCalls) = 2
    /\ LastCalls[1].name # "confirm_route"
    /\ LastCalls[2].name = "confirm_route"
    /\ pc = "reviewer"

\* C7 (the claim as stated): when an Optimization pass ends without tool
\* request, critical_optimization_done is true in the state Review receives
\* and in the state persisted at the end of the turn
C7_FlagAfterOptimisation ==
    /\ AfterNode("optimiser") /\ LastCalls = <<>>
          => critical_optimization_done
    /\ outcome = "suspended" /\ at = "reviewer" /\ Len(path) >= 2
          /\ path[Len(path) - 1] = "optimiser"
          /\ messages[Len(messages) - 1].tool_calls = <<>>
          => critical_optimization_done

\* C8: after find_accommodation the next node is reviewer if
\* critical_optimization_done is already true, optimiser otherwise
C8_AfterAccommodation ==
    AfterNode("find_accommodation") =>
        /\ critical_optimization_done => NextNode = "reviewer"
        /\ ~critical_optimization_done => NextNode = "optimiser"

C8_Witness ==
    /\ AfterNode("find_accommodation")
    /\ critical_optimization_done
    /\ pc = "reviewer"

\* C10 (the claim as stated): after Review the predicate returns
\* reviewer_tools if the message requests a tool, else writer if
\* user_confirmed, else END; reviewer_tools returns control to reviewer
C10_ReviewerRouting ==
    /\ applied = "route_reviewer" /\ outcome = "running" /\ path = <<>>
          /\ Last(messages).type = "ai"
          /\ requirements.present /\ route.present /\ TruthyList(segments)
          => pc = IF LastCalls # <<>> THEN "reviewer_tools"
                  ELSE IF user_confirmed THEN "writer" ELSE END
    /\ AfterNode("reviewer_tools") => NextNode = "reviewer"

\* the tool calls requested since the last user message, and their answers
LastHuman ==
    CHOOSE i \in DOMAIN messages :
        /\ messages[i].type = "human"
        /\ \A j \in DOMAIN messages : messages[j].type = "human" => j <= i
Answered(id) ==
    \E j \in DOMAIN messages :
        messages[j].type = "tool" /\ messages[j].tool_call_id = id
ModelNodes == {"planner", "optimiser", "reviewer"}

\* C11 (the claim as stated): when a node that invokes a model is about to
\* run, every tool call requested earlier in the turn has a tool message
\* with its call id in the log
C11_AllCallsAnswered ==
    outcome = "running" /\ pc \in ModelNodes =>
        \A i \in DOMAIN messages : \A k \in DOMAIN messages[i].tool_calls :
            i > LastHuman => Answered(messages[i].tool_calls[k].id)

IsPrefix(s, t) ==
    Len(s) <= Len(t) /\ \A i \in DOMAIN s : s[i] = t[i]

\* C14: every step leaves the messages log as it was, followed by the
\* messages the step adds
C14_AppendOnly ==
    [][IsPrefix(messages, messages')]_vars

C14_Witness ==
    /\ AfterNode("planner_tools")
    /\ Len(messages) >= 4
    /\ messages[Len(messages) - 1].type = "tool"
    /\ Last(messages).type = "tool"

\* C15: a turn suspends only after Planning with an assistant message that
\* requests no tool, after Review with user_confirmed false, or after
\* Itinerary-Writing; never after a tool node or a pipeline node
C15_SuspendPoints ==
    outcome = "suspended" =>
        \/ /\ at = "planner" /\ Last(path) = "planner"
           /\ Last(messages).type = "ai" /\ LastCalls = <<>>
        \/ /\ at = "reviewer" /\ Last(path) = "reviewer"
           /\ ~user_confirmed
        \/ at = "writer" /\ Last(path) = "writer"

C15_Witness ==
    /\ outcome = "suspended" /\ at = "planner"
    /\ "planner_tools" \in {path[i] : i \in DOMAIN path}

\* a node is about to run on a state that lacks a field it requires
Lacking(node) ==
    /\ pc = node /\ outcome = "running"
    /\ CASE node = "calculate_route" -> ~Truthy(requirements)
         [] node = "generate_waypoints" ->
               ~Truthy(route) \/ ~Truthy(requirements)
         [] node = "find_accommodation" -> ~TruthyList(segments)
         [] node = "optimiser" ->
               ~TruthyList(segments) \/ ~Truthy(requirements)
         [] node \in {"reviewer", "writer"} ->
               ~Truthy(requirements) \/ ~Truthy(route) \/ ~TruthyList(segments)
         [] OTHER -> FALSE

LastAI ==
    messages[CHOOSE i \in DOMAIN messages :
                /\ messages[i].type = "ai"
                /\ \A j \in DOMAIN messages : messages[j].type = "ai" => j <= i]
Registered(node) ==
    CASE node = "planner_tools" -> {"get_location"}
      [] node = "optimiser_tools" -> OPTIMISATION_TOOLS
      [] node = "reviewer_tools" -> {"get_weather"}

\* C17 (the claim as stated): a tool node never completes on a message that
\* requests a tool not registered with it; the turn fails instead
C17_UnknownToolFails ==
    \A node \in {"planner_tools", "optimiser_tools", "reviewer_tools"} :
        AfterNode(node) => ToolNames(LastAI) \subseteq Registered(node)

\* the threads whose chat_stream is running a turn of session sid
Streaming(sid) == {t \in Threads : thr[t].pc = "streaming" /\ thr[t].sid = sid}

\* C18 (the claim as stated): at most one turn of a session is running at a
\* time
C18_OneTurnPerSession ==
    \A sid \in SessionIds : Cardinality(Streaming(sid)) <= 1

\* inside a with self._lock block
InBlock(t) == thr[t].pc \in {"locked", "found", "read", "write", "del",
                             "release"}

\* C19: the registry methods exclude each other: no two threads are inside
\* a with-block; when none is, message_count of every session equals the
\* number of increments completed; get_session_info returns the count the
\* entry has when it returns; a session that was deleted is not present
C19_RegistryExclusive ==
    /\ \A t1, t2 \in Threads : InBlock(t1) /\ InBlock(t2) => t1 = t2
    /\ (\A t \in Threads : ~InBlock(t)) =>
          \A sid \in SessionIds :
              sessions[sid].present =>
                  sessions[sid].message_count = increments[sid]
    /\ \A t \in Threads :
          thr[t].op = "get_session_info" /\ thr[t].pc = "release"
              /\ thr[t].tmp > 0
          => /\ sessions[thr[t].sid].present
             /\ thr[t].tmp = 1 + sessions[thr[t].sid].message_count
    /\ \A sid \in deleted : ~sessions[sid].present

C19_Witness ==
    \E t1, t2 \in Threads :
        /\ thr[t1].op = "update_session" /\ thr[t1].pc = "write"
        /\ thr[t1].tmp = 1
        /\ thr[t2].op = "delete_session" /\ thr[t2].pc = "lock"

\* C20 (the claim as stated): the segments calculate_segments returns form
\* a chain from the route's origin to the route's destination
C20_ChainInvariant ==
    seg_out # <<>> =>
        /\ \A k \in 1..(Len(seg_out) - 1) :
              seg_out[k].destination = seg_out[k + 1].origin
        /\ seg_out[1].origin = route_origin
        /\ seg_out[Len(seg_out)].destination = route_destination(seg_in.edges)

\* the deterministic pipeline a RouteRequirements request starts
Pipeline ==
    <<"planner", "parser", "calculate_route", "generate_waypoints",
      "find_accommodation">>
IsSuffix(s, t) ==
    /\ Len(s) <= Len(t)
    /\ \A i \in DOMAIN s : s[i] = t[Len(t) - Len(s) + i]
RanPipeline ==
    \E k \in 0..(Len(path) - Len(Pipeline)) :
        SubSeq(path, k + 1, k + Len(Pipeline)) = Pipeline
AllLodged ==
    /\ TruthyList(segments)
    /\ \A i \in DOMAIN segments.list :
          segments.list[i].accommodation_options >= 1

\* C21 (the claim as stated): when Planning requests RouteRequirements the
\* turn runs parser, calculate_route, generate_waypoints, find_accommodation
\* in that order; if every segment then has a lodging option,
\* critical_optimization_done is true, the next node is Review, and the
\* turn suspends at Review with awaiting_user_response true
C21_ScenarioB ==
    /\ AfterNode("find_accommodation") => IsSuffix(Pipeline, path)
    /\ AfterNode("find_accommodation") /\ AllLodged
          => critical_optimization_done /\ NextNode = "reviewer"
    /\ outcome = "suspended" /\ at = "reviewer" /\ RanPipeline
          => awaiting_user_response

\* C22 (the claim as stated): when a segment has no lodging option after
\* find_accommodation the next node is Optimization; when Optimization
\* requests a corrective tool once and no tool on its next pass, the tool
\* has been executed exactly once, critical_optimization_done is true, and
\* the turn goes on to Review and suspends there
C22_ScenarioC ==
    /\ AfterNode("find_accommodation") /\ ~AllLodged => NextNode = "optimiser"
    /\ outcome = "suspended"
          /\ path = Pipeline \o <<"optimiser", "optimiser_tools", "optimiser",
                                  "reviewer">>
          /\ messages[Len(messages) - 1].tool_calls = <<>>
          => /\ at = "reviewer"
             /\ Len(SelectSeq(executed,
                               LAMBDA n : n \in OPTIMISATION_TOOLS)) = 1
             /\ critical_optimization_done

\* C23 (the claim as stated): running Lodging-Search on segments that
\* already carry lodging options leaves those options as they are
C23_LodgingSearchIdempotent ==
    [][pc = "find_accommodation" /\ path' = Append(path, "find_accommodation")
          => \A i \in DOMAIN segments.list :
                segments.list[i].accommodation_options >= 1
                   => segments'.list[i].accommodation_options
                         = segments.list[i].accommodation_options]_vars

\* the node that completes in this step, if one does
Completes(node) == path' = Append(path, node)

SameLast(log1, log2) ==
    /\ Last(log1).type = Last(log2).type
    /\ ToolNames(Last(log1)) = ToolNames(Last(log2))

\* C26 (the claim as stated): a routing predicate gives the same node on
\* every log that agrees with the state's log on the last message (its role
\* and the tool names it requests), the other fields being equal
C26_PredicatesReadLastMessage ==
    path = <<>> /\ outcome = "running" =>
        \A log \in PredLogs :
            SameLast(log, messages) =>
                /\ applied = "route_planner" =>
                      pc = route_planner(log, route, segments, user_confirmed)
                /\ applied = "route_optimiser" => pc = route_optimiser(log)
                /\ applied = "route_reviewer" =>
                      pc = route_reviewer(user_confirmed)

Before(n) == IF Len(path) >= 2 THEN path[Len(path) - 1] ELSE "none"

\* C27: when parse_requirements_node has completed, the turn runs
\* calculate_route, generate_waypoints and find_accommodation next, in this
\* order: none of them is followed by a suspension or by a node that invokes
\* a model, and each is preceded by the one before it
C27_PipelineOrder ==
    /\ AfterNode("parser") => NextNode = "calculate_route"
    /\ AfterNode("calculate_route") =>
          Before("calculate_route") = "parser"
             /\ NextNode = "generate_waypoints"
    /\ AfterNode("generate_waypoints") =>
          Before("generate_waypoints") = "calculate_route"
             /\ NextNode = "find_accommodation"
    /\ AfterNode("find_accommodation") =>
          IsSuffix(<<"parser", "calculate_route", "generate_waypoints",
                     "find_accommodation">>, path)

C27_Witness ==
    /\ AfterNode("find_accommodation")
    /\ path = <<"planner", "planner_tools", "planner", "parser",
                "calculate_route", "generate_waypoints", "find_accommodation">>

C29_DailyDistancePositive ==
    requirements.present =>
        requirements.daily_distance_km \in Nat \ {0}

C29_Witness ==
    /\ requirements.present
    /\ requirements.daily_distance_km = 80
    /\ Executed("adjust_daily_distance")
    /\ \E i \in DOMAIN messages : \E k \in DOMAIN messages[i].tool_calls :
          /\ messages[i].tool_calls[k].name = "adjust_daily_distance"
          /\ messages[i].tool_calls[k].args = 0

\* every tool request of the log has a tool message after it with its id
NoDanglingRequest ==
    \A i \in DOMAIN messages : \A k \in DOMAIN messages[i].tool_calls :
        \E j \in DOMAIN messages :
            /\ j > i
            /\ messages[j].type = "tool"
            /\ messages[j].tool_call_id = messages[i].tool_calls[k].id

\* C30 (the claim as stated): when planner_node or optimiser_node is about
\* to invoke its model no tool request of the log is unanswered, and none
\* is when the graph has moved on from a confirm_route request to Review
C30_RequestsAnsweredBeforeModel ==
    /\ outcome = "running" /\ pc \in {"planner", "optimiser"}
          => NoDanglingRequest
    /\ outcome = "running" /\ pc = "reviewer" /\ Requested("confirm_route")
          => NoDanglingRequest

\* C31 (the claim as stated): in every state a turn left in the checkpoint,
\* whether it suspended or failed, the node determine_entry_point chooses
\* for the next turn has the fields it validates: segments and requirements
\* for optimiser; requirements, route and segments for reviewer and writer
C31_EntryHasRequiredFields ==
    pc = "idle" /\ outcome # "none" =>
        LET e == determine_entry_point(user_confirmed, awaiting_user_response,
                                       route, requirements)
        IN  /\ e = "optimiser" => TruthyList(segments) /\ Truthy(requirements)
            /\ e \in {"reviewer", "writer"} =>
                  reviewer_requires(requirements, route, segments)

\* the tools of tools/route.py that return a Command
StateMutationTools ==
    {"confirm_route", "adjust_daily_distance", "add_intermediate_waypoint",
     "remove_intermediate_waypoint", "recalculate_complete_route"}

\* the position in the log of the response the tool node answered
Request == CHOOSE i \in DOMAIN messages :
              /\ messages[i].type = "ai"
              /\ \A j \in DOMAIN messages : messages[j].type = "ai" => j <= i

\* the tool messages that answer the request with this id
Answers(id) ==
    { j \in (Request + 1)..Len(messages) :
         messages[j].type = "tool" /\ messages[j].tool_call_id = id }

\* C32: when the tool node has run the requests of a response, every
\* request for confirm_route, adjust_daily_distance,
\* add_intermediate_waypoint, remove_intermediate_waypoint or
\* recalculate_complete_route is answered by exactly one tool message, the
\* one of its Command, carrying the id of that request; the Commands add no
\* other message
C32_CommandAnswersItsRequest ==
    AfterNode("optimiser_tools") =>
        LET calls == messages[Request].tool_calls IN
        /\ \A i \in DOMAIN calls :
              calls[i].name \in StateMutationTools =>
                  Cardinality(Answers(calls[i].id)) = 1
        /\ Len(messages) = Request + Len(calls)

C32_Witness ==
    /\ AfterNode("optimiser_tools")
    /\ LET calls == messages[Request].tool_calls IN
          /\ Len(calls) = 2
          /\ calls[1].name = "confirm_route"
          /\ calls[2].name = "add_intermediate_waypoint"
          /\ Answers(calls[1].id) # {} /\ Answers(calls[2].id) # {}
    /\ user_confirmed
    /\ Len(requirements.intermediates) = MaxIntermediates + 1

\* the tool node is about to run a response that requests tool name
Requests(name) ==
    /\ pc = "optimiser_tools" /\ outcome = "running"
    /\ name \in ToolNames(Last(messages))

\* the arguments of the request for the tool in the last message
ArgsOf(name) ==
    LET calls == Last(messages).tool_calls
    IN  calls[CHOOSE i \in DOMAIN calls : calls[i].name = name].args

\* C33: adjust_daily_distance, run on a state with route and requirements,
\* raises for a distance below 20 or above 200 and nothing is updated; for
\* 20..200, both ends included, it succeeds: the segments are replaced by
\* recalculated ones, requirements.daily_distance_km is the new distance,
\* route and the other fields of requirements are as before
C33_AdjustDailyDistance ==
    [][Requests("adjust_daily_distance")
         /\ validate_route_state(route, requirements) =>
          LET d == ArgsOf("adjust_daily_distance") IN
          IF d < 20 \/ d > 200
          THEN outcome' = "failed" /\ state' = state
          ELSE /\ Completes("optimiser_tools")
               /\ requirements' =
                     [requirements EXCEPT !.daily_distance_km = d]
               /\ route' = route
               /\ segments' \in recalculate_segments_with_accommodation]_vars

C33_Witness ==
    /\ AfterNode("optimiser_tools")
    /\ "adjust_daily_distance" \in ToolNames(messages[Request])
    /\ requirements.daily_distance_km = 200
    /\ requirements.intermediates = <<"a", "b">>
    /\ Len(segments.list) = MaxSegments

\* C34: add_intermediate_waypoint with insert_position p, run on a state
\* with route and requirements, succeeds only when 0 <= p <= the number of
\* intermediates, and raises, leaving the intermediates as they were, for
\* any other p; when it succeeds the waypoint is at index p of the new
\* list (at the end when no position was given) and the waypoints that
\* were there keep their order around it
C34_AddIntermediateWaypoint ==
    [][Requests("add_intermediate_waypoint")
         /\ validate_route_state(route, requirements) =>
          LET args == ArgsOf("add_intermediate_waypoint")
              old == requirements.intermediates
              new == requirements'.intermediates
              p == IF args.insert_position = <<>> THEN Len(old)
                   ELSE args.insert_position[1]
          IN  /\ Completes("optimiser_tools") =>
                    /\ 0 <= p /\ p <= Len(old)
                    /\ Len(new) = Len(old) + 1
                    /\ new[p + 1] = args.waypoint_name
                    /\ \A k \in 1..Len(old) :
                          old[k] = new[IF k <= p THEN k ELSE k + 1]
                    /\ route' = Route(new)
              /\ ~(0 <= p /\ p <= Len(old)) =>
                    outcome' = "failed" /\ state' = state
              /\ ~Completes("optimiser_tools") => state' = state]_vars

C34_Witness ==
    /\ AfterNode("optimiser_tools")
    /\ LET calls == messages[Request].tool_calls IN
          /\ Len(calls) = 1
          /\ calls[1].name = "add_intermediate_waypoint"
          /\ calls[1].args.insert_position = <<1>>
    /\ requirements.intermediates = <<"a", "c", "b">>
    /\ route = Route(<<"a", "c", "b">>)

\* C35: remove_intermediate_waypoint with index i, run on a state with
\* route and requirements, succeeds only when the list of intermediates is
\* not empty and 0 <= i < its length, and then the new list is the old one
\* without element i; for any other i it raises and nothing is updated
C35_RemoveIntermediateWaypoint ==
    [][Requests("remove_intermediate_waypoint")
         /\ validate_route_state(route, requirements) =>
          LET i == ArgsOf("remove_intermediate_waypoint")
              old == requirements.intermediates
              new == requirements'.intermediates
              valid == old # <<>> /\ 0 <= i /\ i < Len(old)
          IN  /\ Completes("optimiser_tools") =>
                    /\ valid
                    /\ Len(new) = Len(old) - 1
                    /\ \A k \in 1..Len(new) :
                          new[k] = old[IF k <= i THEN k ELSE k + 1]
                    /\ route' = Route(new)
              /\ ~valid => outcome' = "failed" /\ state' = state
              /\ ~Completes("optimiser_tools") => state' = state]_vars

C35_Witness ==
    /\ AfterNode("optimiser_tools")
    /\ LET calls == messages[Request].tool_calls IN
          /\ Len(calls) = 1
          /\ calls[1].name = "remove_intermediate_waypoint"
          /\ calls[1].args = 0
    /\ requirements.intermediates = <<"b">>
    /\ route = Route(<<"b">>)

C37_LookupFailureIsLocal ==
    seg_ext.lookups # <<>> =>
        LET segs == calculate_segments(seg_in.edges, seg_in.daily,
                                       seg_ext.names)
        IN  /\ Len(seg_out) = Len(segs)
            /\ \A i \in DOMAIN segs :
                  /\ seg_out[i].day = segs[i].day
                  /\ seg_out[i].origin = segs[i].origin
                  /\ seg_out[i].destination = segs[i].destination
                  /\ seg_out[i].accommodation_options =
                        IF seg_ext.lookups[i].raises THEN 0
                        ELSE seg_ext.lookups[i].options

C37_Witness ==
    /\ seg_ext.lookups = <<Found, Failed, Found>>
    /\ Len(seg_out) = 3
    /\ seg_out[1].accommodation_options = 1
    /\ seg_out[2].accommodation_options = 0
    /\ seg_out[3].accommodation_options = 1

\* C38: for every polyline of at least two points and every positive daily
\* distance the list calculate_segments returns is not empty and the day of
\* its k-th segment is k
C38_DaysNumbered ==
    seg_ext.names # <<>> =>
        /\ seg_out # <<>>
        /\ \A k \in DOMAIN seg_out : seg_out[k].day = k

C38_Witness ==
    /\ seg_ext.names # <<>> /\ seg_ext.lookups = <<>>
    /\ seg_in.edges = <<1, 1, 1>> /\ seg_in.daily = 2
    /\ Len(seg_out) = 2
    /\ seg_out[2].day = 2
    /\ seg_out[2].destination = route_destination(seg_in.edges)

====
